---- MODULE Spec2Model ----
(***************************************************************************)
(* LangGraphServiceAdapter: the invocation boundary (process), the stream  *)
(* driver (processLangGraphStream), the event dispatcher                   *)
(* (handleLangGraphEvent), its handlers and the content resolver           *)
(* (resolveMessageContent).                                                *)
(*                                                                         *)
(* JavaScript values of type string | null | undefined are modelled as     *)
(* strings, with two reserved strings standing for null and undefined.     *)
(***************************************************************************)
EXTENDS Integers, Sequences, FiniteSets, TLC

VARIABLES
    pc,            \* position of processLangGraphStream (one invocation)
    streamState,   \* const streamState = createStreamState()
    uuid,          \* number of randomUUID() calls made so far
    event,         \* the loop variable of `for await (const event of eventStream)`
    eventCount,    \* let eventCount
    out,           \* what eventStream$ (the sink) has received, in order
    error,         \* the error processLangGraphStream rejects with, if any
    content,       \* resolveMessageContent: the argument of a direct call
    resolved,      \* resolveMessageContent: the value that call returned
    process,       \* one call of LangGraphServiceAdapter.process
    invocations    \* stream driver invocations that run at the same time

vars == <<pc, streamState, uuid, event, eventCount, out, error, content, resolved,
          process, invocations>>

----------------------------------------------------------------------------
\* Bounds of the model.

\* Length of the source stream: the number of events the agent's stream yields.
MaxEvents == 3

\* Length of a content block list handed to resolveMessageContent.
MaxBlocks == 2

\* In how many of its parts a token delta of the source may differ from the
\* plainest one (PlainDelta).
MaxDeviation == 2

\* Length of request.messages.
MaxMessages == 2

----------------------------------------------------------------------------
\* JavaScript values.

Null == "<null>"
Undefined == "<undefined>"

\* ToBoolean on string | null | undefined: null, undefined and "" are falsy.
Truthy(v) == v \notin {Null, Undefined, ""}

\* a || b
OrElse(a, b) == IF Truthy(a) THEN a ELSE b

\* a ?? b
Coalesce(a, b) == IF a \in {Null, Undefined} THEN b ELSE a

\* randomUUID(): the n-th identifier drawn; every draw gives a fresh value.
randomUUID(n) == "uuid-" \o ToString(n)

\* MessageContent: string | null | undefined | array of content blocks | other.
StrContent(s) == [kind |-> "string", str |-> s, items |-> <<>>]
NullContent == [kind |-> "null", str |-> Null, items |-> <<>>]
UndefinedContent == [kind |-> "undefined", str |-> Undefined, items |-> <<>>]
ArrayContent(bs) == [kind |-> "array", str |-> Undefined, items |-> bs]
ObjectContent == [kind |-> "object", str |-> Undefined, items |-> <<>>]

\* !content
ContentFalsy(c) ==
    \/ c.kind \in {"null", "undefined"}
    \/ c.kind = "string" /\ c.str = ""

\* The predicate handed to content.find: an object with type "text" and a
\* "text" member.
IsTextBlock(c) == c.type = "text" /\ c.hasText

\* A find that returns the last match instead of the first.
FindLast(items, i) ==
    LET matches == { j \in i..Len(items) : IsTextBlock(items[j]) }
    IN  IF matches = {} THEN 0 ELSE CHOOSE j \in matches : \A k \in matches : k <= j

RECURSIVE Find(_, _)
\* Array.prototype.find with IsTextBlock, from index i on; 0 when none matches.
Find(items, i) ==
    IF i > Len(items) THEN 0
    ELSE IF IsTextBlock(items[i]) THEN i
    ELSE Find(items, i + 1)

\* resolveMessageContent without line 361.
resolveMessageContentNoFalsyCheck(c) ==
    IF c.kind = "string" THEN c.str
    ELSE IF c.kind = "array" /\ Len(c.items) > 0
    THEN LET i == Find(c.items, 1)
         IN  IF i = 0 THEN Null ELSE Coalesce(c.items[i].text, Null)
    ELSE Null

resolveMessageContent(c) ==
    IF ContentFalsy(c) THEN Null
    ELSE IF c.kind = "string" THEN c.str
    ELSE IF c.kind = "array" /\ Len(c.items) > 0
    THEN LET i == Find(c.items, 1)
         IN  IF i = 0 THEN Null ELSE Coalesce(c.items[i].text, Null)
    ELSE Null

\* Tool-call arguments: absent, a plain object (a list of key/value pairs), or
\* an object JSON.stringify cannot serialise (a circular reference).
NoArgs == [kind |-> "undefined", fields |-> <<>>]
ObjArgs(fs) == [kind |-> "object", fields |-> fs]
CircularArgs == [kind |-> "circular", fields |-> <<>>]

\* Line 280 without its test of toolCall.args.
ArgsTruthyAlways(a) == TRUE

\* toolCall.args as a condition: every object is truthy.
ArgsTruthy(a) == a.kind # "undefined"

\* JSON.stringify throws a TypeError on a circular structure.
StringifyThrows(a) == a.kind = "circular"

RECURSIVE JoinFields(_, _)
JoinFields(fs, i) ==
    IF i > Len(fs) THEN ""
    ELSE (IF i > 1 THEN "," ELSE "")
         \o "\"" \o fs[i][1] \o "\":\"" \o fs[i][2] \o "\""
         \o JoinFields(fs, i + 1)

\* JSON.stringify of a plain object with string members.
JSONstringify(a) == "{" \o JoinFields(a.fields, 1) \o "}"

----------------------------------------------------------------------------
\* Source events (StreamEvent) as the agent's stream yields them.

\* chunk.tool_calls[0]: { id?, name?, args? }
ToolCall(id, name, args) == [id |-> id, name |-> name, args |-> args]

ToolCalls ==
    { ToolCall("call_1", "search", NoArgs),
      ToolCall("call_1", "search", ObjArgs(<< <<"query", "cats">> >>)),
      ToolCall(Undefined, "search", NoArgs),
      ToolCall(Undefined, Undefined, ObjArgs(<< <<"query", "cats">> >>)),
      ToolCall(Undefined, Undefined, NoArgs),
      ToolCall("call_2", "analyze", ObjArgs(<< <<"data", "x">> >>)),
      ToolCall(Undefined, Undefined, CircularArgs) }

\* event.data.chunk (an AIMessageChunk), or its absence.
NoChunk ==
    [present |-> FALSE, id |-> Undefined, content |-> UndefinedContent,
     tool_calls |-> <<>>, finish_reason |-> Undefined]

Chunks ==
    [present : {TRUE},
     id : {Undefined, "msg-1"},
     content : {NullContent, StrContent(""), StrContent("a"), StrContent("b")},
     tool_calls : {<<>>} \cup { <<t>> : t \in ToolCalls },
     finish_reason : {Undefined, "stop"}]

\* event.metadata["copilotkit:emit-messages"] and ["copilotkit:emit-tool-calls"]
Flags == {Undefined, "true", "false"}

RunIds == {"run-1", "run-2"}

\* START of @langchain/langgraph
START == "__start__"

StreamEvent(kind, run, node, em, et, chunk) ==
    [event |-> kind, run_id |-> run, langgraph_node |-> node,
     emitMessages |-> em, emitToolCalls |-> et, chunk |-> chunk]

\* The plainest token delta; the deltas of the model differ from it in at
\* most MaxDeviation of their seven parts.
PlainDelta ==
    StreamEvent("on_chat_model_stream", "run-1", Undefined, Undefined, Undefined,
                [present |-> TRUE, id |-> "msg-1", content |-> NullContent,
                 tool_calls |-> <<>>, finish_reason |-> Undefined])

Differs(a, b) == IF a = b THEN 0 ELSE 1

Deviation(e) ==
    Differs(e.run_id, PlainDelta.run_id)
    + Differs(e.emitMessages, PlainDelta.emitMessages)
    + Differs(e.emitToolCalls, PlainDelta.emitToolCalls)
    + Differs(e.chunk.id, PlainDelta.chunk.id)
    + Differs(e.chunk.content, PlainDelta.chunk.content)
    + Differs(e.chunk.tool_calls, PlainDelta.chunk.tool_calls)
    + Differs(e.chunk.finish_reason, PlainDelta.chunk.finish_reason)

TokenDeltas ==
    { e \in [event : {"on_chat_model_stream"}, run_id : RunIds,
             langgraph_node : {Undefined}, emitMessages : Flags,
             emitToolCalls : Flags, chunk : Chunks] : Deviation(e) <= MaxDeviation }
    \cup { StreamEvent("on_chat_model_stream", "run-1", Undefined, Undefined,
                       Undefined, NoChunk) }

OtherEvents ==
    { StreamEvent(k, r, Undefined, Undefined, Undefined, NoChunk) :
        k \in {"on_chat_model_end", "on_custom_event", "on_tool_start"},
        r \in RunIds }
    \cup { StreamEvent("on_chain_start", r, n, Undefined, Undefined, NoChunk) :
             r \in RunIds, n \in {Undefined, START, "agent"} }

Events == TokenDeltas \cup OtherEvents

\* No event: outside the body of the for-await loop.
NoEvent == StreamEvent("<none>", Undefined, Undefined, Undefined, Undefined, NoChunk)

----------------------------------------------------------------------------
\* Events written to the sink (RuntimeEventSubject).

ActionExecutionStart(id, name, parent) ==
    [type |-> "ActionExecutionStart", actionExecutionId |-> id,
     actionName |-> name, parentMessageId |-> parent]

ActionExecutionArgs(id, args) ==
    [type |-> "ActionExecutionArgs", actionExecutionId |-> id, args |-> args]

ActionExecutionEnd(id) ==
    [type |-> "ActionExecutionEnd", actionExecutionId |-> id]

TextMessageStart(id) == [type |-> "TextMessageStart", messageId |-> id]

TextMessageContent(id, text) ==
    [type |-> "TextMessageContent", messageId |-> id, content |-> text]

TextMessageEnd(id) == [type |-> "TextMessageEnd", messageId |-> id]

RunError(message, code) == [type |-> "RunError", message |-> message, code |-> code]

\* eventStream$.complete()
Complete == [type |-> "complete"]

----------------------------------------------------------------------------
\* StreamState and the Run State Table (messagesInProgress).

\* new Map()
EmptyMap == [k \in {} |-> Undefined]

\* MessageInProgress
MessageInProgress(id, toolCallId, toolCallName) ==
    [id |-> id, toolCallId |-> toolCallId, toolCallName |-> toolCallName]

\* What `currentStream?.x` reads when currentStream is null.
NoMessage == MessageInProgress(Undefined, Undefined, Undefined)

\* createStreamState(), drawing the n-th UUID for runId.
createStreamState(n) ==
    [runId |-> randomUUID(n), messagesInProgress |-> EmptyMap,
     currentNodeName |-> Undefined, hasError |-> FALSE]

\* state.messagesInProgress.get(runId) || null
getMessageInProgress(runId, state) ==
    IF runId \in DOMAIN state.messagesInProgress
    THEN state.messagesInProgress[runId]
    ELSE NoMessage

\* The entry is stored under the message's id instead of the run's.
setMessageInProgressByMessageId(runId, message, state) ==
    [state EXCEPT !.messagesInProgress =
        [k \in (DOMAIN @) \cup {message.id} |-> IF k = message.id THEN message ELSE @[k]]]

\* state.messagesInProgress.set(runId, message)
setMessageInProgress(runId, message, state) ==
    [state EXCEPT !.messagesInProgress =
        [k \in (DOMAIN @) \cup {runId} |-> IF k = runId THEN message ELSE @[k]]]

\* state.messagesInProgress.delete(runId)
deleteMessageInProgress(runId, state) ==
    [state EXCEPT !.messagesInProgress =
        [k \in (DOMAIN @) \ {runId} |-> @[k]]]

----------------------------------------------------------------------------
\* Handlers. Each returns what the call leaves behind: the stream state, the
\* sink's contents, the number of UUIDs drawn, and whether it threw.

Returned(state, sink, n) == [state |-> state, out |-> sink, uuid |-> n, threw |-> FALSE]
Thrown(state, sink, n) == [state |-> state, out |-> sink, uuid |-> n, threw |-> TRUE]

\* n after evaluating `v || randomUUID()`
Drawn(v, n) == IF Truthy(v) THEN n ELSE n + 1

\* The emit-messages flag is not consulted.
shouldEmitMessagesIgnoresFlag(ev) == TRUE

\* event.metadata?.["copilotkit:emit-messages"] ?? true
shouldEmitMessages(ev) == Coalesce(ev.emitMessages, "true") = "true"

\* The emit-tool-calls flag is not consulted.
shouldEmitToolCallsIgnoresFlag(ev) == TRUE

\* event.metadata?.["copilotkit:emit-tool-calls"] ?? true
shouldEmitToolCalls(ev) == Coalesce(ev.emitToolCalls, "true") = "true"

\* chunk.tool_calls?.[0] is defined
HasToolCall(chunk) == Len(chunk.tool_calls) > 0

\* Lines 260-278 without setMessageInProgress: the start is emitted and no
\* unit is recorded.
ToolCallStartNoEntry(chunk, toolCall, sink, state, n) ==
    Returned(state,
             Append(sink, ActionExecutionStart(OrElse(toolCall.id, randomUUID(n + 1)),
                                               toolCall.name, chunk.id)),
             Drawn(toolCall.id, n))

\* Lines 260-278 followed by the args of the opening descriptor, when it has
\* any.
ToolCallStartEmitsArgs(chunk, toolCall, sink, state, n) ==
    LET actionExecutionId == OrElse(toolCall.id, randomUUID(n + 1))
        n1 == Drawn(toolCall.id, n)
        id == OrElse(chunk.id, randomUUID(n1 + 1))
        n2 == Drawn(chunk.id, n1)
        toolCallId == OrElse(toolCall.id, randomUUID(n2 + 1))
        n3 == Drawn(toolCall.id, n2)
        sink1 == Append(sink, ActionExecutionStart(actionExecutionId, toolCall.name, chunk.id))
    IN  Returned(
            setMessageInProgress(state.runId,
                MessageInProgress(id, toolCallId, toolCall.name), state),
            IF ArgsTruthy(toolCall.args) /\ ~StringifyThrows(toolCall.args)
            THEN Append(sink1, ActionExecutionArgs(toolCallId, JSONstringify(toolCall.args)))
            ELSE sink1,
            n3)

\* Lines 260-278: tool call start.
ToolCallStart(chunk, toolCall, sink, state, n) ==
    LET actionExecutionId == OrElse(toolCall.id, randomUUID(n + 1))
        n1 == Drawn(toolCall.id, n)
        id == OrElse(chunk.id, randomUUID(n1 + 1))
        n2 == Drawn(chunk.id, n1)
        toolCallId == OrElse(toolCall.id, randomUUID(n2 + 1))
        n3 == Drawn(toolCall.id, n2)
    IN  Returned(
            setMessageInProgress(state.runId,
                MessageInProgress(id, toolCallId, toolCall.name), state),
            Append(sink, ActionExecutionStart(actionExecutionId, toolCall.name, chunk.id)),
            n3)

\* Lines 280-287 with currentStream.id in place of currentStream.toolCallId.
ToolCallArgsWithMessageId(currentStream, toolCall, sink, state, n) ==
    IF StringifyThrows(toolCall.args)
    THEN Thrown(state, sink, n)
    ELSE Returned(state,
            Append(sink, ActionExecutionArgs(currentStream.id,
                                             JSONstringify(toolCall.args))),
            n)

\* Lines 280-287: tool call args.
ToolCallArgs(currentStream, toolCall, sink, state, n) ==
    IF StringifyThrows(toolCall.args)
    THEN Thrown(state, sink, n)
    ELSE Returned(state,
            Append(sink, ActionExecutionArgs(currentStream.toolCallId,
                                             JSONstringify(toolCall.args))),
            n)

\* Line 293 without its condition: every text delta opens a unit.
OpensTextMessageAlways(hasCurrentStream, currentStream) == TRUE

\* Line 293 without its second disjunct: text under an open tool call goes to
\* the unit in progress.
OpensTextMessageOnlyWhenNone(hasCurrentStream, currentStream) == ~hasCurrentStream

\* Line 293: a text unit is opened when none is open or a tool call is.
OpensTextMessage(hasCurrentStream, currentStream) ==
    ~hasCurrentStream \/ Truthy(currentStream.toolCallId)

\* Lines 290-317 with line 292 testing shouldEmitMessages alone.
TextContentUnchecked(chunk, emitMessages, hasCurrentStream, currentStream, sink, state, n) ==
    LET messageContent == resolveMessageContent(chunk.content)
    IN  IF ~emitMessages
        THEN Returned(state, sink, n)
        ELSE LET opens == OpensTextMessage(hasCurrentStream, currentStream)
                 messageId == OrElse(chunk.id, randomUUID(n + 1))
                 n1 == IF opens THEN Drawn(chunk.id, n) ELSE n
                 state1 == IF opens
                           THEN setMessageInProgress(state.runId,
                                    MessageInProgress(messageId, Null, Null), state)
                           ELSE state
                 sink1 == IF opens THEN Append(sink, TextMessageStart(messageId)) ELSE sink
                 currentStream1 == IF opens
                                   THEN getMessageInProgress(state1.runId, state1)
                                   ELSE currentStream
             IN  IF Truthy(currentStream1.id)
                 THEN Returned(state1,
                        Append(sink1, TextMessageContent(currentStream1.id, messageContent)),
                        n1)
                 ELSE Returned(state1, sink1, n1)

\* Lines 290-317 with the content event carrying the chunk's id (or a new
\* UUID) instead of currentStream.id.
TextContentWithChunkId(chunk, emitMessages, hasCurrentStream, currentStream, sink, state, n) ==
    LET messageContent == resolveMessageContent(chunk.content)
    IN  IF ~(Truthy(messageContent) /\ emitMessages)
        THEN Returned(state, sink, n)
        ELSE LET opens == OpensTextMessage(hasCurrentStream, currentStream)
                 messageId == OrElse(chunk.id, randomUUID(n + 1))
                 n1 == Drawn(chunk.id, n)
                 state1 == IF opens
                           THEN setMessageInProgress(state.runId,
                                    MessageInProgress(messageId, Null, Null), state)
                           ELSE state
                 sink1 == IF opens THEN Append(sink, TextMessageStart(messageId)) ELSE sink
             IN  Returned(state1,
                        Append(sink1, TextMessageContent(messageId, messageContent)),
                        n1)

\* Lines 290-317: text content.
TextContent(chunk, emitMessages, hasCurrentStream, currentStream, sink, state, n) ==
    LET messageContent == resolveMessageContent(chunk.content)
    IN  IF ~(Truthy(messageContent) /\ emitMessages)
        THEN Returned(state, sink, n)
        ELSE LET opens == OpensTextMessage(hasCurrentStream, currentStream)
                 messageId == OrElse(chunk.id, randomUUID(n + 1))
                 n1 == IF opens THEN Drawn(chunk.id, n) ELSE n
                 state1 == IF opens
                           THEN setMessageInProgress(state.runId,
                                    MessageInProgress(messageId, Null, Null), state)
                           ELSE state
                 sink1 == IF opens THEN Append(sink, TextMessageStart(messageId)) ELSE sink
                 currentStream1 == IF opens
                                   THEN getMessageInProgress(state1.runId, state1)
                                   ELSE currentStream
             IN  IF Truthy(currentStream1.id)
                 THEN Returned(state1,
                        Append(sink1, TextMessageContent(currentStream1.id, messageContent)),
                        n1)
                 ELSE Returned(state1, sink1, n1)

\* handleChatModelStream without line 252: a delta with a finish_reason is
\* handled like any other.
handleChatModelStreamNoFinishCheck(ev, sink, state, n) ==
    LET chunk == ev.chunk
        emitMessages == shouldEmitMessages(ev)
        emitToolCalls == shouldEmitToolCalls(ev)
        currentStream == getMessageInProgress(state.runId, state)
        hasCurrentStream == Truthy(currentStream.id)
        toolCall == chunk.tool_calls[1]
    IN  IF ~chunk.present THEN Returned(state, sink, n)
        ELSE IF HasToolCall(chunk) /\ emitToolCalls
                /\ ~hasCurrentStream /\ Truthy(toolCall.name)
        THEN ToolCallStart(chunk, toolCall, sink, state, n)
        ELSE IF HasToolCall(chunk) /\ emitToolCalls
                /\ hasCurrentStream /\ Truthy(currentStream.toolCallId)
                /\ ArgsTruthy(toolCall.args)
        THEN ToolCallArgs(currentStream, toolCall, sink, state, n)
        ELSE TextContent(chunk, emitMessages, hasCurrentStream,
                         currentStream, sink, state, n)

\* handleChatModelStream with line 280 not testing currentStream.toolCallId:
\* the args path is taken whatever the kind of the unit in progress.
handleChatModelStreamArgsIntoAnyUnit(ev, sink, state, n) ==
    LET chunk == ev.chunk
        emitMessages == shouldEmitMessages(ev)
        emitToolCalls == shouldEmitToolCalls(ev)
        currentStream == getMessageInProgress(state.runId, state)
        hasCurrentStream == Truthy(currentStream.id)
        toolCall == chunk.tool_calls[1]
    IN  IF ~chunk.present THEN Returned(state, sink, n)
        ELSE IF Truthy(chunk.finish_reason) THEN Returned(state, sink, n)
        ELSE IF HasToolCall(chunk) /\ emitToolCalls
                /\ ~hasCurrentStream /\ Truthy(toolCall.name)
        THEN ToolCallStart(chunk, toolCall, sink, state, n)
        ELSE IF HasToolCall(chunk) /\ emitToolCalls
                /\ hasCurrentStream
                /\ ArgsTruthy(toolCall.args)
        THEN ToolCallArgs(currentStream, toolCall, sink, state, n)
        ELSE TextContent(chunk, emitMessages, hasCurrentStream,
                         currentStream, sink, state, n)

\* handleChatModelStream with line 260 also taking the start path when the
\* descriptor's id is not the call id of the unit in progress.
handleChatModelStreamStartsOtherCall(ev, sink, state, n) ==
    LET chunk == ev.chunk
        emitMessages == shouldEmitMessages(ev)
        emitToolCalls == shouldEmitToolCalls(ev)
        currentStream == getMessageInProgress(state.runId, state)
        hasCurrentStream == Truthy(currentStream.id)
        toolCall == chunk.tool_calls[1]
    IN  IF ~chunk.present THEN Returned(state, sink, n)
        ELSE IF Truthy(chunk.finish_reason) THEN Returned(state, sink, n)
        ELSE IF HasToolCall(chunk) /\ emitToolCalls
                /\ Truthy(toolCall.name)
                /\ (~hasCurrentStream \/ (Truthy(toolCall.id)
                                            /\ toolCall.id # currentStream.toolCallId))
        THEN ToolCallStart(chunk, toolCall, sink, state, n)
        ELSE IF HasToolCall(chunk) /\ emitToolCalls
                /\ hasCurrentStream /\ Truthy(currentStream.toolCallId)
                /\ ArgsTruthy(toolCall.args)
        THEN ToolCallArgs(currentStream, toolCall, sink, state, n)
        ELSE TextContent(chunk, emitMessages, hasCurrentStream,
                         currentStream, sink, state, n)

\* Lines 238-318.
handleChatModelStream(ev, sink, state, n) ==
    LET chunk == ev.chunk
        emitMessages == shouldEmitMessages(ev)
        emitToolCalls == shouldEmitToolCalls(ev)
        currentStream == getMessageInProgress(state.runId, state)
        hasCurrentStream == Truthy(currentStream.id)
        toolCall == chunk.tool_calls[1]
    IN  IF ~chunk.present THEN Returned(state, sink, n)
        ELSE IF Truthy(chunk.finish_reason) THEN Returned(state, sink, n)
        ELSE IF HasToolCall(chunk) /\ emitToolCalls
                /\ ~hasCurrentStream /\ Truthy(toolCall.name)
        THEN ToolCallStart(chunk, toolCall, sink, state, n)
        ELSE IF HasToolCall(chunk) /\ emitToolCalls
                /\ hasCurrentStream /\ Truthy(currentStream.toolCallId)
                /\ ArgsTruthy(toolCall.args)
        THEN ToolCallArgs(currentStream, toolCall, sink, state, n)
        ELSE TextContent(chunk, emitMessages, hasCurrentStream,
                         currentStream, sink, state, n)

\* handleChatModelEnd without line 339: the entry stays in the table.
handleChatModelEndKeepsEntry(sink, state, n) ==
    LET currentStream == getMessageInProgress(state.runId, state)
        sink1 == IF Truthy(currentStream.toolCallId)
                 THEN Append(sink, ActionExecutionEnd(currentStream.toolCallId))
                 ELSE IF Truthy(currentStream.id)
                 THEN Append(sink, TextMessageEnd(currentStream.id))
                 ELSE sink
    IN  Returned(state, sink1, n)

\* handleChatModelEnd testing currentStream.id before currentStream.toolCallId.
handleChatModelEndTextFirst(sink, state, n) ==
    LET currentStream == getMessageInProgress(state.runId, state)
        sink1 == IF Truthy(currentStream.id)
                 THEN Append(sink, TextMessageEnd(currentStream.id))
                 ELSE IF Truthy(currentStream.toolCallId)
                 THEN Append(sink, ActionExecutionEnd(currentStream.toolCallId))
                 ELSE sink
    IN  Returned(deleteMessageInProgress(state.runId, state), sink1, n)

\* Lines 323-340.
handleChatModelEnd(sink, state, n) ==
    LET currentStream == getMessageInProgress(state.runId, state)
        sink1 == IF Truthy(currentStream.toolCallId)
                 THEN Append(sink, ActionExecutionEnd(currentStream.toolCallId))
                 ELSE IF Truthy(currentStream.id)
                 THEN Append(sink, TextMessageEnd(currentStream.id))
                 ELSE sink
    IN  Returned(deleteMessageInProgress(state.runId, state), sink1, n)

\* handleChainStart without the comparison with START.
handleChainStartAnyNode(ev, sink, state, n) ==
    IF Truthy(ev.langgraph_node)
    THEN Returned([state EXCEPT !.currentNodeName = ev.langgraph_node], sink, n)
    ELSE Returned(state, sink, n)

\* Lines 345-355.
handleChainStart(ev, sink, state, n) ==
    IF Truthy(ev.langgraph_node) /\ ev.langgraph_node # START
    THEN Returned([state EXCEPT !.currentNodeName = ev.langgraph_node], sink, n)
    ELSE Returned(state, sink, n)

\* Lines 193-220 with line 193 testing event.run_id alone: the last writer wins.
DispatchAlwaysAdopts(ev, sink, state, n) ==
    LET state1 == IF Truthy(ev.run_id)
                  THEN [state EXCEPT !.runId = ev.run_id]
                  ELSE state
    IN  CASE ev.event = "on_chat_model_stream" -> handleChatModelStream(ev, sink, state1, n)
          [] ev.event = "on_chat_model_end" -> handleChatModelEnd(sink, state1, n)
          [] ev.event = "on_custom_event" -> Returned(state1, sink, n)
          [] ev.event = "on_chain_start" -> handleChainStart(ev, sink, state1, n)
          [] OTHER -> Returned(state1, sink, n)

\* The handlers key the Run State Table by the event's run_id instead of
\* streamState.runId.
DispatchKeyedByEventRunId(ev, sink, state, n) ==
    LET key == IF Truthy(ev.run_id) THEN ev.run_id ELSE state.runId
        keyed == [state EXCEPT !.runId = key]
        r == CASE ev.event = "on_chat_model_stream" -> handleChatModelStream(ev, sink, keyed, n)
               [] ev.event = "on_chat_model_end" -> handleChatModelEnd(sink, keyed, n)
               [] ev.event = "on_chain_start" -> handleChainStart(ev, sink, keyed, n)
               [] OTHER -> Returned(keyed, sink, n)
    IN  [r EXCEPT !.state.runId = state.runId]

\* Lines 193-220: the try block of handleLangGraphEvent.
Dispatch(ev, sink, state, n) ==
    LET state1 == IF ~Truthy(state.runId) /\ Truthy(ev.run_id)
                  THEN [state EXCEPT !.runId = ev.run_id]
                  ELSE state
    IN  CASE ev.event = "on_chat_model_stream" -> handleChatModelStream(ev, sink, state1, n)
          [] ev.event = "on_chat_model_end" -> handleChatModelEnd(sink, state1, n)
          [] ev.event = "on_custom_event" -> Returned(state1, sink, n)
          [] ev.event = "on_chain_start" -> handleChainStart(ev, sink, state1, n)
          [] OTHER -> Returned(state1, sink, n)

\* convertServiceAdapterError(error, "LangGraph").message
ConvertedMessage == "LangGraph error"

\* Lines 221-232: the catch block of handleLangGraphEvent.
CatchEventError(r) ==
    Returned(r.state, Append(r.out, RunError(ConvertedMessage, "LANGGRAPH_EVENT_ERROR")),
             r.uuid)

\* handleLangGraphEvent without its catch block: the exception escapes.
handleLangGraphEventRethrows(ev, sink, state, n) == Dispatch(ev, sink, state, n)

handleLangGraphEvent(ev, sink, state, n) ==
    LET r == Dispatch(ev, sink, state, n)
    IN  IF r.threw THEN CatchEventError(r) ELSE r

----------------------------------------------------------------------------
\* LangGraphServiceAdapter.process: the invocation boundary.

\* A message of request.messages, and request.messages itself: null or a list.
Message(role, text) == [role |-> role, content |-> text]
NullMessages == [isNull |-> TRUE, items |-> <<>>]
MessageList(l) == [isNull |-> FALSE, items |-> l]

\* The request handed to process, and the configuration handed to the
\* constructor.
Request(messages, threadId, runId) ==
    [messages |-> messages, threadId |-> threadId, runId |-> runId]

Config(strategy) == [systemPromptStrategy |-> strategy]

\* undefined, as the result of convertMessageToLangChainMessage
UndefinedMessage == [type |-> Undefined, content |-> Undefined]

\* convertMessageToLangChainMessage: a SystemMessage, a HumanMessage or an
\* AIMessage by the role of a text message, undefined for any other message.
convertMessageToLangChainMessage(msg) ==
    CASE msg.role = "system" -> [type |-> "system", content |-> msg.content]
      [] msg.role = "user" -> [type |-> "human", content |-> msg.content]
      [] msg.role = "assistant" -> [type |-> "ai", content |-> msg.content]
      [] OTHER -> UndefinedMessage

\* convertCopilotKitToLangGraphInput where null messages convert to an empty
\* list (messages ?? []) instead of throwing.
convertCopilotKitToLangGraphInputLenient(messages) ==
    LET mapped == [i \in 1..Len(messages.items) |->
                      convertMessageToLangChainMessage(messages.items[i])]
    IN  [threw |-> FALSE,
         messages |-> SelectSeq(mapped, LAMBDA m : m # UndefinedMessage)]

\* Lines 127-164 of types.ts: messages.map throws a TypeError on null, which
\* the catch block converts and rethrows; the converted messages that are
\* undefined are filtered out.
convertCopilotKitToLangGraphInput(messages) ==
    IF messages.isNull
    THEN [threw |-> TRUE, messages |-> <<>>]
    ELSE LET mapped == [i \in 1..Len(messages.items) |->
                           convertMessageToLangChainMessage(messages.items[i])]
         IN  [threw |-> FALSE,
              messages |-> SelectSeq(mapped, LAMBDA m : m # UndefinedMessage)]

\* isSystemMessage of @langchain/core/messages
isSystemMessage(msg) == msg.type = "system"

\* Line 39: this.systemPromptStrategy
systemPromptStrategy(config) == Coalesce(config.systemPromptStrategy, "passthrough")

\* A filter that removes the first system message only.
filteredMessagesFirstOnly(msgs) ==
    LET systems == { i \in 1..Len(msgs) : isSystemMessage(msgs[i]) }
    IN  IF systems = {} THEN msgs
        ELSE LET first == CHOOSE i \in systems : \A j \in systems : i <= j
             IN  SubSeq(msgs, 1, first - 1) \o SubSeq(msgs, first + 1, Len(msgs))

\* Lines 71-77: the list the filter callback keeps.
filteredMessages(msgs) == SelectSeq(msgs, LAMBDA m : ~isSystemMessage(m))

RECURSIVE copilotkitInstructionsFrom(_, _, _)
\* Lines 69-77: the filter callback assigns copilotkitInstructions at every
\* system message it visits, from index i on, starting from the value acc.
copilotkitInstructionsFrom(msgs, i, acc) ==
    IF i > Len(msgs) THEN acc
    ELSE copilotkitInstructionsFrom(msgs, i + 1,
             IF isSystemMessage(msgs[i]) THEN msgs[i].content ELSE acc)

copilotkitInstructions(msgs) == copilotkitInstructionsFrom(msgs, 1, "")

\* streamConfig: { version, configurable?: { copilotkit_instructions } }
StreamConfig(instructions) ==
    [version |-> "v2", hasConfigurable |-> instructions # Undefined,
     copilotkit_instructions |-> instructions]

\* A thread id that is generated whether or not the request has one.
responseThreadIdAlwaysNew(threadId, n) == randomUUID(n + 1)

\* Line 110: threadId || randomUUID()
responseThreadId(threadId, n) == OrElse(threadId, randomUUID(n + 1))

NoResponse == [threadId |-> Undefined, runId |-> Undefined]

\* Line 53: process has been called with request, on an adapter constructed
\* with config.
Called(request, config) ==
    [pc |-> "called", request |-> request, config |-> config, callback |-> FALSE,
     langGraphInput |-> <<>>, streamConfig |-> StreamConfig(Undefined),
     response |-> NoResponse, error |-> Null]

\* Lines 55-115, when the conversion throws: process rejects with the
\* converted error.
Rejects(p) == [p EXCEPT !.pc = "rejected", !.error = ConvertedMessage]

\* Lines 55-112, when the conversion returns: the strategy is applied, the
\* callback is handed to eventSource.stream and the response is returned; n
\* UUIDs have been drawn so far.
Returns(p, n) ==
    LET converted == convertCopilotKitToLangGraphInput(p.request.messages).messages
        inject == systemPromptStrategy(p.config) = "inject"
    IN  [p EXCEPT
           !.pc = "returned",
           !.langGraphInput = IF inject THEN filteredMessages(converted) ELSE converted,
           !.streamConfig = IF inject
                            THEN StreamConfig(copilotkitInstructions(converted))
                            ELSE StreamConfig(Undefined),
           !.callback = TRUE,
           !.response = [threadId |-> responseThreadId(p.request.threadId, n),
                         runId |-> p.request.runId]]

\* The call whose stream callback the stream driver specifications start
\* from: a request with one user message and a thread id, the default
\* strategy.
StreamingCall ==
    Returns(Called(Request(MessageList(<<Message("user", "hello")>>),
                           "test-thread", Undefined),
                   Config(Undefined)), 0)

----------------------------------------------------------------------------
\* Stream driver invocations that run at the same time. A stream state is an
\* object: heap holds the objects made so far and an invocation holds a
\* reference to its own (an index of heap).

Invocations == {1, 2}

\* An invocation of processLangGraphStream before line 149; history lists the
\* source events it has handled.
IdleInvocation ==
    [pc |-> "idle", streamState |-> 0, event |-> NoEvent, eventCount |-> 0,
     out |-> <<>>, history |-> <<>>]

NoInvocations ==
    [heap |-> <<>>, run |-> [i \in Invocations |-> IdleInvocation], uuid |-> 0]

\* A stream state kept on the adapter instance: made by the first invocation
\* and used again by every later one.
allocateSharedStreamState(heap, n) ==
    IF heap = <<>>
    THEN [heap |-> <<createStreamState(n + 1)>>, ref |-> 1]
    ELSE [heap |-> heap, ref |-> 1]

\* Line 149: const streamState = createStreamState() makes a new object in
\* every invocation.
allocateStreamState(heap, n) ==
    [heap |-> Append(heap, createStreamState(n + 1)), ref |-> Len(heap) + 1]

----------------------------------------------------------------------------
\* processLangGraphStream: one invocation of the stream driver.

Init ==
    /\ pc = "streamEvents"
    /\ streamState = createStreamState(1)
    /\ uuid = 1
    /\ event = NoEvent
    /\ eventCount = 0
    /\ out = <<>>
    /\ error = Null
    /\ content = UndefinedContent
    /\ resolved = Undefined
    /\ process = StreamingCall
    /\ invocations = NoInvocations

\* Line 152: this.agent.streamEvents(input, config) returns the stream.
StreamEventsReturns ==
    /\ pc = "streamEvents"
    /\ pc' = "next"
    /\ UNCHANGED <<streamState, uuid, event, eventCount, out, error, content, resolved, process, invocations>>

\* Line 152 throws; lines 221-226 convert the error.
StreamEventsThrows ==
    /\ pc = "streamEvents"
    /\ pc' = "finally"
    /\ error' = ConvertedMessage
    /\ UNCHANGED <<streamState, uuid, event, eventCount, out, content, resolved, process, invocations>>

\* Line 163: the source yields events of S.
SourceYieldsFrom(S) ==
    /\ pc = "next"
    /\ eventCount < MaxEvents
    /\ \E e \in S : event' = e
    /\ pc' = "body"
    /\ UNCHANGED <<streamState, uuid, eventCount, out, error, content, resolved, process, invocations>>

\* Line 163: the source yields its next event.
SourceYields == SourceYieldsFrom(Events)

\* Line 163: the source is exhausted; the try block ends normally.
SourceEnds ==
    /\ pc = "next"
    /\ pc' = "finally"
    /\ UNCHANGED <<streamState, uuid, event, eventCount, out, error, content, resolved, process, invocations>>

\* The source throws and the sink is not completed (no finally block).
SourceThrowsSkipsFinally ==
    /\ pc = "next"
    /\ pc' = "rejected"
    /\ error' = ConvertedMessage
    /\ UNCHANGED <<streamState, uuid, event, eventCount, out, content, resolved, process, invocations>>

\* Line 163: awaiting the next element throws; lines 221-226 convert the error.
SourceThrows ==
    /\ pc = "next"
    /\ pc' = "finally"
    /\ error' = ConvertedMessage
    /\ UNCHANGED <<streamState, uuid, event, eventCount, out, content, resolved, process, invocations>>

\* The loop leaves the source as soon as a handler has reported an error.
LoopBodyBreaksOnError ==
    /\ pc = "body"
    /\ eventCount' = eventCount + 1
    /\ LET r == handleLangGraphEvent(event, out, streamState, uuid)
           failed == \/ r.threw
                     \/ /\ Len(r.out) > Len(out)
                        /\ r.out[Len(r.out)].type = "RunError"
       IN  /\ streamState' = r.state
           /\ out' = r.out
           /\ uuid' = r.uuid
           /\ pc' = IF failed THEN "finally" ELSE "next"
           /\ error' = IF r.threw THEN ConvertedMessage ELSE error
    /\ event' = NoEvent
    /\ UNCHANGED <<content, resolved, process, invocations>>

\* Lines 164-191: the body of the loop. An exception escaping
\* handleLangGraphEvent would be caught at line 221.
LoopBody ==
    /\ pc = "body"
    /\ eventCount' = eventCount + 1
    /\ LET r == handleLangGraphEvent(event, out, streamState, uuid)
       IN  /\ streamState' = r.state
           /\ out' = r.out
           /\ uuid' = r.uuid
           /\ pc' = IF r.threw THEN "finally" ELSE "next"
           /\ error' = IF r.threw THEN ConvertedMessage ELSE error
    /\ event' = NoEvent
    /\ UNCHANGED <<content, resolved, process, invocations>>

\* complete() as the last statement of the try block instead of a finally
\* block: a run that caught an error rejects without completing the sink.
FinallyOnSuccessOnly ==
    /\ pc = "finally"
    /\ out' = IF error = Null THEN Append(out, Complete) ELSE out
    /\ pc' = IF error = Null THEN "resolved" ELSE "rejected"
    /\ UNCHANGED <<streamState, uuid, event, eventCount, error, content, resolved, process, invocations>>

\* Lines 227-229: eventStream$.complete(), then the promise settles.
Finally ==
    /\ pc = "finally"
    /\ out' = Append(out, Complete)
    /\ pc' = IF error = Null THEN "resolved" ELSE "rejected"
    /\ UNCHANGED <<streamState, uuid, event, eventCount, error, content, resolved, process, invocations>>

Next ==
    \/ StreamEventsReturns
    \/ StreamEventsThrows
    \/ SourceYields
    \/ SourceEnds
    \/ SourceThrows
    \/ LoopBody
    \/ Finally

Spec == Init /\ [][Next]_vars

----------------------------------------------------------------------------
\* The stream driver on a source of plain text: token deltas whose content is
\* a non-empty string, with no tool call, no finish_reason and messages not
\* suppressed, and generation-end events.

PlainTextDeltas ==
    { e \in TokenDeltas :
        /\ e.chunk.present
        /\ e.chunk.content.kind = "string"
        /\ e.chunk.content.str # ""
        /\ ~HasToolCall(e.chunk)
        /\ ~Truthy(e.chunk.finish_reason)
        /\ e.emitMessages # "false" }

GenerationEnds == { e \in OtherEvents : e.event = "on_chat_model_end" }

TextSourceYields == SourceYieldsFrom(PlainTextDeltas \cup GenerationEnds)

TextNext ==
    \/ StreamEventsReturns
    \/ TextSourceYields
    \/ SourceEnds
    \/ LoopBody
    \/ Finally

TextSpec == Init /\ [][TextNext]_vars

----------------------------------------------------------------------------
\* resolveMessageContent called on its own, on every content of Contents.

\* A content block: { type, text? }
Blocks ==
    { b \in [type : {"text", "image_url"}, hasText : BOOLEAN,
             text : {Undefined, "hi", "second"}] : ~b.hasText => b.text = Undefined }

RECURSIVE BlockLists(_)
BlockLists(n) ==
    IF n = 0 THEN {<<>>}
    ELSE LET shorter == BlockLists(n - 1)
         IN  shorter \cup { Append(l, b) : l \in { x \in shorter : Len(x) = n - 1 },
                                             b \in Blocks }

Contents ==
    {NullContent, UndefinedContent, ObjectContent}
    \cup { StrContent(s) : s \in {"", "a", "hi"} }
    \cup { ArrayContent(l) : l \in BlockLists(MaxBlocks) }

ResolveInit ==
    /\ pc = "resolve"
    /\ content \in Contents
    /\ resolved = Undefined
    /\ streamState = createStreamState(1)
    /\ uuid = 1
    /\ event = NoEvent
    /\ eventCount = 0
    /\ out = <<>>
    /\ error = Null
    /\ process = StreamingCall
    /\ invocations = NoInvocations

\* resolveMessageContent(content)
Resolve ==
    /\ pc = "resolve"
    /\ resolved' = resolveMessageContent(content)
    /\ pc' = "returned"
    /\ UNCHANGED <<streamState, uuid, event, eventCount, out, error, content, process, invocations>>

ResolveNext == Resolve

ResolveSpec == ResolveInit /\ [][ResolveNext]_vars

----------------------------------------------------------------------------
\* One call of process, from the call to the end of the stream driver its
\* callback starts. process has no await: it runs to its return or its throw
\* in one step; the callback it hands to eventSource.stream runs afterwards.

RequestMessages ==
    { Message("system", "be brief"), Message("system", "be kind"),
      Message("user", "hello"), Message("developer", "note") }

RECURSIVE MessageLists(_)
MessageLists(n) ==
    IF n = 0 THEN {<<>>}
    ELSE LET shorter == MessageLists(n - 1)
         IN  shorter \cup { Append(l, m) : l \in { x \in shorter : Len(x) = n - 1 },
                                             m \in RequestMessages }

Requests ==
    { Request(m, t, r) :
        m \in {NullMessages} \cup { MessageList(l) : l \in MessageLists(MaxMessages) },
        t \in {Undefined, "", "test-thread"},
        r \in {Undefined, "run-7"} }

Configs == { Config(s) : s \in {Undefined, "passthrough", "inject"} }

\* No stream state: createStreamState has not been called.
NoStreamState ==
    [runId |-> Undefined, messagesInProgress |-> EmptyMap,
     currentNodeName |-> Undefined, hasError |-> FALSE]

ProcessInit ==
    /\ process \in { Called(r, c) : r \in Requests, c \in Configs }
    /\ pc = "idle"
    /\ streamState = NoStreamState
    /\ uuid = 0
    /\ event = NoEvent
    /\ eventCount = 0
    /\ out = <<>>
    /\ error = Null
    /\ content = UndefinedContent
    /\ resolved = Undefined
    /\ invocations = NoInvocations

\* Lines 55-61 and 113-115: the conversion throws and process rejects.
ProcessRejects ==
    /\ process.pc = "called"
    /\ convertCopilotKitToLangGraphInput(process.request.messages).threw
    /\ process' = Rejects(process)
    /\ UNCHANGED <<pc, streamState, uuid, event, eventCount, out, error, content, resolved, invocations>>

\* Lines 55-112: process registers the stream callback and returns.
ProcessReturns ==
    /\ process.pc = "called"
    /\ ~convertCopilotKitToLangGraphInput(process.request.messages).threw
    /\ process' = Returns(process, uuid)
    /\ uuid' = IF Truthy(process.request.threadId) THEN uuid ELSE uuid + 1
    /\ UNCHANGED <<pc, streamState, event, eventCount, out, error, content, resolved, invocations>>

\* Lines 101-107 and 149: the event source calls the registered callback,
\* which calls processLangGraphStream with the sink.
StreamCallback ==
    /\ process.callback
    /\ pc = "idle"
    /\ streamState' = createStreamState(uuid + 1)
    /\ uuid' = uuid + 1
    /\ pc' = "streamEvents"
    /\ UNCHANGED <<event, eventCount, out, error, content, resolved, process, invocations>>

\* The source of these calls: a delta that opens a tool-call unit and a delta
\* whose arguments JSON.stringify cannot serialise.
ProcessEvents ==
    { [PlainDelta EXCEPT !.chunk.tool_calls = <<t>>] :
        t \in { ToolCall("call_1", "search", NoArgs),
                ToolCall(Undefined, Undefined, CircularArgs) } }

ProcessSourceYields == SourceYieldsFrom(ProcessEvents)

ProcessNext ==
    \/ ProcessRejects
    \/ ProcessReturns
    \/ StreamCallback
    \/ StreamEventsReturns
    \/ StreamEventsThrows
    \/ ProcessSourceYields
    \/ SourceEnds
    \/ SourceThrows
    \/ LoopBody
    \/ Finally

ProcessSpec == ProcessInit /\ [][ProcessNext]_vars

----------------------------------------------------------------------------
\* handleLangGraphEvent (an export of the module) applied, event after event,
\* to a stream state that its caller made: one whose runId is set, as
\* createStreamState makes it, or one whose runId is the empty string.

DispatchStates ==
    { createStreamState(1), [createStreamState(1) EXCEPT !.runId = ""] }

\* Text deltas, generation-ends and custom events of two runs, and a custom
\* event that carries no run identifier.
DispatchEvents ==
    { [PlainDelta EXCEPT !.run_id = r, !.chunk.content = StrContent("a")] : r \in RunIds }
    \cup { StreamEvent(k, r, Undefined, Undefined, Undefined, NoChunk) :
             k \in {"on_chat_model_end", "on_custom_event"}, r \in RunIds }
    \cup { StreamEvent("on_custom_event", Undefined, Undefined, Undefined, Undefined,
                       NoChunk) }

DispatchInit ==
    /\ streamState \in DispatchStates
    /\ pc = "next"
    /\ uuid = 1
    /\ event = NoEvent
    /\ eventCount = 0
    /\ out = <<>>
    /\ error = Null
    /\ content = UndefinedContent
    /\ resolved = Undefined
    /\ process = StreamingCall
    /\ invocations = NoInvocations

DispatchSourceYields == SourceYieldsFrom(DispatchEvents)

DispatchNext ==
    \/ DispatchSourceYields
    \/ LoopBody

DispatchSpec == DispatchInit /\ [][DispatchNext]_vars

----------------------------------------------------------------------------
\* Two invocations of processLangGraphStream on one adapter instance, their
\* steps interleaved in any order. Every id of their events is supplied by
\* the engine, so that the output of an invocation does not depend on the
\* UUIDs drawn.

ConcurrentEvents ==
    { [PlainDelta EXCEPT !.chunk.content = StrContent("a")],
      [PlainDelta EXCEPT !.chunk.tool_calls = <<ToolCall("call_1", "search", NoArgs)>>],
      StreamEvent("on_chat_model_end", "run-1", Undefined, Undefined, Undefined, NoChunk) }

ConcurrentInit ==
    /\ invocations = NoInvocations
    /\ pc = "idle"
    /\ streamState = NoStreamState
    /\ uuid = 0
    /\ event = NoEvent
    /\ eventCount = 0
    /\ out = <<>>
    /\ error = Null
    /\ content = UndefinedContent
    /\ resolved = Undefined
    /\ process = StreamingCall

\* Line 149 in invocation i.
InvocationStarts(i) ==
    /\ invocations.run[i].pc = "idle"
    /\ LET a == allocateStreamState(invocations.heap, invocations.uuid)
       IN  invocations' =
             [invocations EXCEPT !.heap = a.heap,
                                 !.uuid = @ + 1,
                                 !.run[i].streamState = a.ref,
                                 !.run[i].pc = "next"]
    /\ UNCHANGED <<pc, streamState, uuid, event, eventCount, out, error, content,
                   resolved, process>>

\* Line 163 in invocation i: its source yields an event.
InvocationYields(i) ==
    /\ invocations.run[i].pc = "next"
    /\ invocations.run[i].eventCount < MaxEvents
    /\ \E e \in ConcurrentEvents :
          invocations' = [invocations EXCEPT !.run[i].event = e, !.run[i].pc = "body"]
    /\ UNCHANGED <<pc, streamState, uuid, event, eventCount, out, error, content,
                   resolved, process>>

\* Lines 164-191 in invocation i: the event is handled on the stream state
\* the invocation refers to and on its own sink.
InvocationBody(i) ==
    /\ invocations.run[i].pc = "body"
    /\ LET run == invocations.run[i]
           r == handleLangGraphEvent(run.event, run.out,
                                     invocations.heap[run.streamState], invocations.uuid)
       IN  invocations' =
             [invocations EXCEPT !.heap[run.streamState] = r.state,
                                 !.uuid = r.uuid,
                                 !.run[i].out = r.out,
                                 !.run[i].eventCount = @ + 1,
                                 !.run[i].history = Append(@, run.event),
                                 !.run[i].event = NoEvent,
                                 !.run[i].pc = "next"]
    /\ UNCHANGED <<pc, streamState, uuid, event, eventCount, out, error, content,
                   resolved, process>>

\* Lines 163 and 227-229 in invocation i: its source is exhausted and its
\* sink is completed.
InvocationEnds(i) ==
    /\ invocations.run[i].pc = "next"
    /\ invocations' = [invocations EXCEPT !.run[i].out = Append(@, Complete),
                                          !.run[i].pc = "resolved"]
    /\ UNCHANGED <<pc, streamState, uuid, event, eventCount, out, error, content,
                   resolved, process>>

InvocationStartsAny == \E i \in Invocations : InvocationStarts(i)
InvocationYieldsAny == \E i \in Invocations : InvocationYields(i)
InvocationBodyAny == \E i \in Invocations : InvocationBody(i)
InvocationEndsAny == \E i \in Invocations : InvocationEnds(i)

ConcurrentNext ==
    \/ InvocationStartsAny
    \/ InvocationYieldsAny
    \/ InvocationBodyAny
    \/ InvocationEndsAny

ConcurrentSpec == ConcurrentInit /\ [][ConcurrentNext]_vars

----------------------------------------------------------------------------
\* Vocabulary of the properties.

\* The positions of sink holding an event whose type is in T.
Positions(sink, T) == { i \in 1..Len(sink) : sink[i].type \in T }

Count(sink, T) == Cardinality(Positions(sink, T))

\* What a step appended to the sink.
Appended == SubSeq(out', Len(out) + 1, Len(out'))

\* The unit in progress, if any, and its kind.
CurrentStream == getMessageInProgress(streamState.runId, streamState)
UnitOpen == Truthy(CurrentStream.id)
ToolCallOpen == UnitOpen /\ Truthy(CurrentStream.toolCallId)
TextOpen == UnitOpen /\ ~Truthy(CurrentStream.toolCallId)

IsTokenDelta(e) == e.event = "on_chat_model_stream"
IsGenerationEnd(e) == e.event = "on_chat_model_end"

Settled == pc \in {"resolved", "rejected"}

----------------------------------------------------------------------------
\* C1: in one run of the stream driver the sink is completed exactly once, as
\* the last thing written to it, whether the source is exhausted or the
\* iteration (or the streamEvents call) throws: a completion found in the sink
\* is at its last position, the sink is completed iff the run has settled.
C1_CompleteOnceAndLast ==
    /\ \A i \in Positions(out, {"complete"}) : i = Len(out)
    /\ Settled <=> Count(out, {"complete"}) = 1

\* The source threw after events had been emitted, and the sink is completed.
C1_Witness ==
    /\ pc = "rejected"
    /\ eventCount >= 2
    /\ Len(out) >= 3
    /\ out[Len(out)] = Complete

\* C2: when the handler of a source event throws, handleLangGraphEvent writes
\* exactly one RunError with code LANGGRAPH_EVENT_ERROR, the exception does not
\* reach the driver (it goes on to await the next event, with no error to
\* reject with) and the events that follow are dispatched.
C2_HandlerErrorContained ==
    [][ (pc = "body" /\ Dispatch(event, out, streamState, uuid).threw)
        => /\ out' = Append(out, RunError(ConvertedMessage, "LANGGRAPH_EVENT_ERROR"))
           /\ pc' = "next"
           /\ error' = Null
           /\ eventCount' = eventCount + 1 ]_vars

\* A handler threw, and the event after it was dispatched and emitted.
C2_Witness ==
    /\ pc = "next"
    /\ \E i \in Positions(out, {"RunError"}) :
          /\ out[i].code = "LANGGRAPH_EVENT_ERROR"
          /\ i < Len(out)
          /\ out[i + 1].type = "ActionExecutionEnd"

\* The ActionExecutionStart that opened the unit an event at position i is in.
OpeningStart(sink, i) ==
    LET before == { j \in Positions(sink, {"ActionExecutionStart"}) : j < i }
    IN  CHOOSE j \in before : \A k \in before : k <= j

\* C3: the actionExecutionId of every ActionExecutionArgs and ActionExecutionEnd
\* is the one of the ActionExecutionStart that opened the unit, whether the
\* engine supplied the call id or it was generated.
C3_SameActionExecutionId ==
    \A i \in Positions(out, {"ActionExecutionArgs", "ActionExecutionEnd"}) :
        /\ \E j \in Positions(out, {"ActionExecutionStart"}) : j < i
        /\ out[i].actionExecutionId = out[OpeningStart(out, i)].actionExecutionId

\* C4: the number of TextMessageStart events emitted is the number of
\* TextMessageEnd events emitted, plus one exactly while a text unit is open.
C4_TextStartsMatchEnds ==
    Count(out, {"TextMessageStart"})
        = Count(out, {"TextMessageEnd"}) + (IF TextOpen THEN 1 ELSE 0)

\* The source ended with a text unit open, after another one was closed.
C4_Witness ==
    /\ pc = "resolved"
    /\ TextOpen
    /\ Count(out, {"TextMessageStart"}) = 2
    /\ Count(out, {"TextMessageEnd"}) = 1

\* Between two TextMessageStart events of the sink there is a TextMessageEnd or
\* an ActionExecutionStart.
StartsSeparated(sink) ==
    \A i, j \in Positions(sink, {"TextMessageStart"}) :
        i < j => \E k \in Positions(sink, {"TextMessageEnd", "ActionExecutionStart"}) :
                    i < k /\ k < j

\* C5: between any two TextMessageStart events there is a TextMessageEnd or an
\* ActionExecutionStart, and no step emits a TextMessageStart while a text
\* unit is open.
C5_NoStartWhileTextOpen ==
    /\ [] StartsSeparated(out)
    /\ [][ TextOpen => Positions(Appended, {"TextMessageStart"}) = {} ]_vars

\* A second text unit was started, after the first one was ended.
C5_Witness ==
    /\ Count(out, {"TextMessageStart"}) = 2
    /\ Count(out, {"TextMessageEnd"}) = 1
    /\ out[Len(out)].type = "TextMessageContent"
    /\ pc = "next"

\* The sink holds text units only, each a TextMessageStart, then one or more
\* TextMessageContent, then (once closed) a TextMessageEnd, all with the
\* unit's messageId.
TextUnitsOnly(sink) ==
    \A i \in 1..Len(sink) :
        CASE sink[i].type = "TextMessageStart" ->
                /\ i = 1 \/ sink[i - 1].type = "TextMessageEnd"
                /\ i < Len(sink) /\ sink[i + 1].type = "TextMessageContent"
          [] sink[i].type = "TextMessageContent" ->
                /\ i > 1
                /\ sink[i - 1].type \in {"TextMessageStart", "TextMessageContent"}
                /\ sink[i - 1].messageId = sink[i].messageId
          [] sink[i].type = "TextMessageEnd" ->
                /\ i > 1
                /\ sink[i - 1].type = "TextMessageContent"
                /\ sink[i - 1].messageId = sink[i].messageId
          [] sink[i].type = "complete" -> i = Len(sink)
          [] OTHER -> FALSE

\* C6 (under TextSpec: the source yields plain text deltas and generation-end
\* events only): from a fresh state, n >= 1 token deltas with non-empty string
\* content and then a generation end produce TextMessageStart, one
\* TextMessageContent per delta in arrival order with the delta's text, then
\* TextMessageEnd, all with one messageId. Stated per step: a delta appends a
\* TextMessageContent with its text as the last event, preceded by a
\* TextMessageStart exactly when no unit was open, and leaves a text unit open;
\* a generation end appends the TextMessageEnd of the open unit and nothing
\* else; and the sink always is a sequence of such units.
C6_TextRun ==
    /\ [] TextUnitsOnly(out)
    /\ [][ pc = "body" /\ event \in PlainTextDeltas
           => /\ Len(Appended) = (IF UnitOpen THEN 1 ELSE 2)
              /\ out'[Len(out')].type = "TextMessageContent"
              /\ out'[Len(out')].content = event.chunk.content.str
              /\ TextOpen' ]_vars
    /\ [][ pc = "body" /\ IsGenerationEnd(event)
           => /\ out' = IF UnitOpen THEN Append(out, TextMessageEnd(CurrentStream.id))
                                    ELSE out
              /\ ~UnitOpen' ]_vars

\* Two deltas "a", "b" and a generation end, from the fresh state.
C6_Witness ==
    /\ pc = "next"
    /\ \E m \in {"msg-1", randomUUID(2)} :
          out = << TextMessageStart(m), TextMessageContent(m, "a"),
                   TextMessageContent(m, "b"), TextMessageEnd(m) >>

\* A token delta with no text (null, absent or "") and no tool-call descriptor.
EmptyDelta(e) ==
    /\ IsTokenDelta(e)
    /\ ContentFalsy(e.chunk.content)
    /\ ~HasToolCall(e.chunk)

\* C7: a token delta whose content is null, absent or "" and that carries no
\* tool-call descriptor emits nothing and leaves the stream state as it is (it
\* opens no unit and closes none); with no unit open, a plain text delta emits
\* exactly a TextMessageStart and, right after it, its TextMessageContent.
C7_EmptyContentIgnored ==
    /\ [][ pc = "body" /\ EmptyDelta(event)
           => out' = out /\ streamState' = streamState ]_vars
    /\ [][ pc = "body" /\ ~UnitOpen /\ event \in PlainTextDeltas
           => /\ Len(Appended) = 2
              /\ Appended[1].type = "TextMessageStart"
              /\ Appended[2] = TextMessageContent(Appended[1].messageId,
                                                  event.chunk.content.str) ]_vars

\* A delta with content "" is about to be handled while a text unit is open.
C7_Witness ==
    /\ pc = "body"
    /\ EmptyDelta(event)
    /\ event.chunk.content = StrContent("")
    /\ TextOpen

\* A token delta that carries a tool-call descriptor, with emit-tool-calls false.
SuppressedToolDelta(e) ==
    /\ IsTokenDelta(e)
    /\ HasToolCall(e.chunk)
    /\ e.emitToolCalls = "false"

\* C8: a token delta with a tool-call descriptor and emit-tool-calls = false
\* emits no ActionExecutionStart and no ActionExecutionArgs and opens no
\* tool-call unit. Only a token delta with a descriptor that is not suppressed
\* emits an ActionExecutionStart or ActionExecutionArgs, and every
\* ActionExecutionEnd follows an ActionExecutionStart: so an invocation whose
\* descriptor-carrying deltas are all suppressed emits no ActionExecution event.
C8_ToolCallsSuppressed ==
    /\ [][ pc = "body" /\ SuppressedToolDelta(event)
           => /\ Positions(Appended, {"ActionExecutionStart", "ActionExecutionArgs"}) = {}
              /\ ToolCallOpen' => ToolCallOpen ]_vars
    /\ [][ pc = "body"
           /\ Positions(Appended, {"ActionExecutionStart", "ActionExecutionArgs"}) # {}
           => /\ IsTokenDelta(event)
              /\ HasToolCall(event.chunk)
              /\ event.emitToolCalls # "false" ]_vars
    /\ [] (\A i \in Positions(out, {"ActionExecutionEnd"}) :
              \E j \in Positions(out, {"ActionExecutionStart"}) : j < i)

\* A suppressed delta with a named descriptor is about to be handled while no
\* unit is open.
C8_Witness ==
    /\ pc = "body"
    /\ SuppressedToolDelta(event)
    /\ Truthy(event.chunk.tool_calls[1].name)
    /\ ~UnitOpen

\* A token delta with emit-messages false.
SuppressedMessageDelta(e) == IsTokenDelta(e) /\ e.emitMessages = "false"

\* The same event with no content in its chunk.
WithoutContent(e) == [e EXCEPT !.chunk.content = NullContent]

\* C9: a token delta with emit-messages = false emits no TextMessageStart and
\* no TextMessageContent and opens no text unit, whatever its content; nothing
\* of its text is kept: the sink, the stream state and the UUIDs drawn are left
\* as the same delta without content leaves them.
C9_MessagesSuppressed ==
    [][ pc = "body" /\ SuppressedMessageDelta(event)
        => /\ Positions(Appended, {"TextMessageStart", "TextMessageContent"}) = {}
           /\ TextOpen' => TextOpen
           /\ LET r == handleLangGraphEvent(WithoutContent(event), out, streamState, uuid)
              IN  out' = r.out /\ streamState' = r.state /\ uuid' = r.uuid ]_vars

\* A suppressed delta with text "a" is about to be handled while no unit is
\* open.
C9_Witness ==
    /\ pc = "body"
    /\ SuppressedMessageDelta(event)
    /\ event.chunk.content = StrContent("a")
    /\ ~UnitOpen

\* C10 as claimed (under ResolveSpec): resolveMessageContent returns a plain
\* string content as it is, the empty string included.
C10_StringReturnedAsIs ==
    (pc = "returned" /\ content.kind = "string") => resolved = content.str

\* C10 as amended (under ResolveSpec): resolveMessageContent returns a
\* non-empty plain string content as it is, and null for the empty string.
C10_NonEmptyStringReturnedAsIs ==
    (pc = "returned" /\ content.kind = "string")
        => resolved = (IF content.str = "" THEN Null ELSE content.str)

\* resolveMessageContent("") has returned null.
C10_Witness ==
    /\ pc = "returned"
    /\ content = StrContent("")
    /\ resolved = Null

C12_CompleteBeforeReject ==
    /\ pc = "rejected" =>
          /\ error = ConvertedMessage
          /\ Len(out) > 0
          /\ out[Len(out)] = Complete
    /\ error # Null =>
          /\ pc \in {"finally", "rejected"}
          /\ pc = "finally" => Count(out, {"complete"}) = 0

\* The iteration failed after one event had produced a text unit: the sink
\* was completed and the run rejected, with no RunError written.
C12_Witness ==
    /\ pc = "rejected"
    /\ eventCount = 1
    /\ Len(out) = 3
    /\ out[1].type = "TextMessageStart"
    /\ out[2].type = "TextMessageContent"
    /\ out[3] = Complete

----------------------------------------------------------------------------
\* Claims about the units of the output sequence.

\* C18: once every opened unit has been followed by a generation-end event (no
\* unit is open), there is no dangling unit: every ActionExecutionStart is
\* followed by an ActionExecutionEnd with its id, and every TextMessageStart by
\* a TextMessageEnd with its id, with no start event of another unit in
\* between.
C18_NoDanglingUnits ==
    ~UnitOpen =>
        \A i \in Positions(out, {"ActionExecutionStart", "TextMessageStart"}) :
            \E j \in (i + 1)..Len(out) :
                /\ out[j] = IF out[i].type = "ActionExecutionStart"
                            THEN ActionExecutionEnd(out[i].actionExecutionId)
                            ELSE TextMessageEnd(out[i].messageId)
                /\ \A k \in (i + 1)..(j - 1) :
                      out[k].type \notin {"ActionExecutionStart", "TextMessageStart"}

\* C19: dispatching a generation-end event leaves the table without an entry
\* for the run and raises no error, and emits exactly: one ActionExecutionEnd
\* with the call id of the entry when a tool-call unit is open, one
\* TextMessageEnd with the id of the entry when a text unit is open, nothing
\* when no unit is open.
C19_GenerationEndClosesUnit ==
    [][ (pc = "body" /\ IsGenerationEnd(event))
        => /\ streamState'.runId \notin DOMAIN streamState'.messagesInProgress
           /\ ~UnitOpen'
           /\ Appended = IF ToolCallOpen
                          THEN <<ActionExecutionEnd(CurrentStream.toolCallId)>>
                          ELSE IF TextOpen
                          THEN <<TextMessageEnd(CurrentStream.id)>>
                          ELSE <<>>
           /\ pc' = "next"
           /\ error' = Null ]_vars

\* The tool-call unit call_1 was opened and a generation-end closed it.
C19_Witness ==
    /\ pc = "next"
    /\ eventCount = 2
    /\ out = <<ActionExecutionStart("call_1", "search", "msg-1"),
               ActionExecutionEnd("call_1")>>
    /\ ~UnitOpen

\* A token delta that takes the text path with text to emit: it has a chunk
\* with no finish_reason, its content resolves to a non-empty text, messages
\* are not suppressed, and under an open tool-call unit the argument path is
\* not taken.
SupersedingDelta(e) ==
    /\ IsTokenDelta(e)
    /\ e.chunk.present
    /\ ~Truthy(e.chunk.finish_reason)
    /\ e.chunk.content.kind = "string"
    /\ e.chunk.content.str # ""
    /\ e.emitMessages # "false"
    /\ ~(/\ Len(e.chunk.tool_calls) > 0
         /\ e.emitToolCalls # "false"
         /\ e.chunk.tool_calls[1].args.kind # "undefined")

\* C20: a text delta arriving while a tool-call unit is open supersedes it:
\* exactly TextMessageStart and TextMessageContent are emitted (no
\* ActionExecutionEnd), with the chunk's id or a new UUID, and the entry of
\* the table becomes a text unit with that id; and a generation-end arriving
\* while a text unit is open emits the TextMessageEnd of that unit only.
C20_ToolCallSuperseded ==
    [][ /\ (pc = "body" /\ ToolCallOpen /\ SupersedingDelta(event))
           => LET messageId == IF event.chunk.id \in {Null, Undefined, ""}
                               THEN randomUUID(uuid + 1)
                               ELSE event.chunk.id
              IN  /\ Appended = <<TextMessageStart(messageId),
                                  TextMessageContent(messageId, event.chunk.content.str)>>
                  /\ TextOpen'
                  /\ CurrentStream'.id = messageId
        /\ (pc = "body" /\ TextOpen /\ IsGenerationEnd(event))
           => Appended = <<TextMessageEnd(CurrentStream.id)>> ]_vars

\* A tool-call unit was opened, superseded by text and the text unit closed:
\* no ActionExecutionEnd was emitted.
C20_Witness ==
    /\ pc = "next"
    /\ eventCount = 3
    /\ Len(out) = 4
    /\ out[1].type = "ActionExecutionStart"
    /\ out[2].type = "TextMessageStart"
    /\ out[3].type = "TextMessageContent"
    /\ out[4] = TextMessageEnd(out[2].messageId)

----------------------------------------------------------------------------
\* Claims about process (under ProcessSpec).

\* The messages of the request as converted, before the strategy is applied.
Converted == convertCopilotKitToLangGraphInput(process.request.messages).messages

\* C13 (under ProcessSpec): when the source stream fails, so that the stream
\* driver rejects, the call of process rejects too, after the sink has been
\* completed; a handler failure (a RunError in the sink) never makes process
\* reject.
C13_SourceFailureRejectsProcess ==
    /\ pc = "rejected" =>
          /\ process.pc = "rejected"
          /\ out[Len(out)] = Complete
    /\ Count(out, {"RunError"}) > 0 => process.pc # "rejected"

\* C14 (under ProcessSpec): when request.messages is null the conversion
\* throws and process rejects with the converted error before any streaming:
\* the callback is never handed to the event source, the stream driver never
\* starts and the sink receives nothing.
C14_ConversionFailureRejects ==
    process.request.messages.isNull =>
        /\ process.pc \in {"called", "rejected"}
        /\ process.pc = "rejected" => process.error = ConvertedMessage
        /\ ~process.callback
        /\ pc = "idle"
        /\ out = <<>>

\* process({messages: null, threadId: "test-thread"}) has rejected.
C14_Witness ==
    /\ process.request.messages.isNull
    /\ process.request.threadId = "test-thread"
    /\ process.pc = "rejected"
    /\ process.error = ConvertedMessage

\* C15 (under ProcessSpec): on every path of a call of process, the one where
\* the conversion fails included, the sink is completed exactly once: when
\* the call has come to its end (process has rejected, or the stream driver
\* has settled) the sink holds exactly one completion.
C15_CompleteOncePerCall ==
    (process.pc = "rejected" \/ Settled) => Count(out, {"complete"}) = 1

\* C16 (under ProcessSpec): a call of process that returns gives back the
\* request's threadId when it has one, a newly drawn UUID (none that is used
\* elsewhere) when it has none, and the request's runId as it is.
C16_ResponseEchoesIds ==
    process.pc = "returned" =>
        /\ Truthy(process.request.threadId)
              => process.response.threadId = process.request.threadId
        /\ ~Truthy(process.request.threadId)
              => /\ \E k \in 1..uuid : process.response.threadId = randomUUID(k)
                 /\ process.response.threadId # streamState.runId
        /\ process.response.runId = process.request.runId

\* A request with threadId "test-thread" and a runId was answered with both.
C16_Witness ==
    /\ process.pc = "returned"
    /\ process.request.threadId = "test-thread"
    /\ process.request.runId = "run-7"
    /\ process.response = [threadId |-> "test-thread", runId |-> "run-7"]

\* C17 as claimed (under ProcessSpec): with 'inject' no system message is in
\* the list handed to the agent and the content of every system message of
\* the request is the value of configurable.copilotkit_instructions; with
\* 'passthrough' or no strategy the converted list is handed on unchanged and
\* there is no configurable.
C17_EverySystemMessageInjected ==
    process.pc = "returned" =>
        IF process.config.systemPromptStrategy = "inject"
        THEN /\ \A i \in 1..Len(process.langGraphInput) :
                    process.langGraphInput[i].type # "system"
             /\ \A i \in 1..Len(Converted) :
                    Converted[i].type = "system" =>
                        /\ process.streamConfig.hasConfigurable
                        /\ process.streamConfig.copilotkit_instructions
                              = Converted[i].content
        ELSE /\ process.langGraphInput = Converted
             /\ ~process.streamConfig.hasConfigurable

\* C17 as amended (under ProcessSpec): with 'inject' the list handed to the
\* agent is the converted list without its system messages, and
\* configurable.copilotkit_instructions is the content of the last system
\* message, the empty string when there is none; with 'passthrough' or no
\* strategy the converted list is handed on unchanged and there is no
\* configurable.
C17_LastSystemMessageInjected ==
    process.pc = "returned" =>
        IF process.config.systemPromptStrategy = "inject"
        THEN LET systems == { i \in 1..Len(Converted) : Converted[i].type = "system" }
             IN  /\ process.langGraphInput
                       = SelectSeq(Converted, LAMBDA m : m.type # "system")
                 /\ process.streamConfig.hasConfigurable
                 /\ process.streamConfig.copilotkit_instructions
                       = IF systems = {} THEN ""
                         ELSE Converted[CHOOSE i \in systems :
                                            \A j \in systems : j <= i].content
        ELSE /\ process.langGraphInput = Converted
             /\ ~process.streamConfig.hasConfigurable

\* With 'inject', a request with the system messages "be brief" and "be kind"
\* was handed on with no message and the instructions "be kind".
C17_Witness ==
    /\ process.pc = "returned"
    /\ process.config.systemPromptStrategy = "inject"
    /\ process.request.messages
          = MessageList(<<Message("system", "be brief"), Message("system", "be kind")>>)
    /\ process.langGraphInput = <<>>
    /\ process.streamConfig.copilotkit_instructions = "be kind"

----------------------------------------------------------------------------
\* Claims about the tool-call and text events.

\* C21: an ActionExecutionStart is emitted only by a token delta handled while
\* no unit is open and whose descriptor carries a name; it is the only event
\* of that step, and it leaves a tool-call unit with that name in the table.
\* So the last ActionExecutionStart before it has been closed (an
\* ActionExecutionEnd follows it) or superseded (a TextMessageStart follows
\* it): one start per tool-call unit.
C21_OneStartPerToolUnit ==
    [][ Count(Appended, {"ActionExecutionStart"}) > 0
        => /\ pc = "body"
           /\ IsTokenDelta(event)
           /\ ~UnitOpen
           /\ Len(event.chunk.tool_calls) > 0
           /\ Truthy(event.chunk.tool_calls[1].name)
           /\ Len(Appended) = 1
           /\ Appended[1].actionName = event.chunk.tool_calls[1].name
           /\ ToolCallOpen'
           /\ CurrentStream'.toolCallName = event.chunk.tool_calls[1].name
           /\ LET lifecycle == Positions(out, {"ActionExecutionStart",
                                               "ActionExecutionEnd", "TextMessageStart"})
              IN  \A i \in lifecycle :
                      (\A j \in lifecycle : j <= i)
                          => out[i].type # "ActionExecutionStart" ]_vars

\* Two tool-call units were opened one after the other, each with one start.
C21_Witness ==
    /\ pc = "next"
    /\ Len(out) = 3
    /\ out[1].type = "ActionExecutionStart"
    /\ out[2].type = "ActionExecutionEnd"
    /\ out[3].type = "ActionExecutionStart"
    /\ ToolCallOpen

\* C22: an ActionExecutionArgs is emitted only by a token delta handled while
\* a tool-call unit is open; it is the only event of that step, carries the
\* call id of the unit in the table and the descriptor's args serialised by
\* JSON.stringify, and the stream state (the table included) is left as it
\* was, so that further args deltas are handled the same way.
C22_ArgsFrame ==
    [][ Count(Appended, {"ActionExecutionArgs"}) > 0
        => /\ pc = "body"
           /\ IsTokenDelta(event)
           /\ ToolCallOpen
           /\ Len(event.chunk.tool_calls) > 0
           /\ Appended = <<ActionExecutionArgs(CurrentStream.toolCallId,
                               JSONstringify(event.chunk.tool_calls[1].args))>>
           /\ streamState' = streamState ]_vars

\* Two args deltas were streamed for the unit call_1.
C22_Witness ==
    /\ pc = "next"
    /\ ToolCallOpen
    /\ out = <<ActionExecutionStart("call_1", "search", "msg-1"),
               ActionExecutionArgs("call_1", "{\"query\":\"cats\"}"),
               ActionExecutionArgs("call_1", "{\"query\":\"cats\"}")>>

\* C23: the sink is only appended to, so its events are in the arrival order
\* of the deltas that produced them; a TextMessageContent is emitted only by a
\* token delta, as the last event of its step, once per step, with the text
\* the delta's content resolves to; after the step a text unit is open, and
\* the most recent TextMessageStart carries the same messageId as the content
\* and the unit, with no TextMessageEnd after it.
C23_ContentInOpenTextUnit ==
    [][ /\ Len(out') >= Len(out)
        /\ SubSeq(out', 1, Len(out)) = out
        /\ Count(Appended, {"TextMessageContent"}) > 0
           => /\ pc = "body"
              /\ IsTokenDelta(event)
              /\ Count(Appended, {"TextMessageContent"}) = 1
              /\ out'[Len(out')]
                    = TextMessageContent(CurrentStream'.id,
                                         resolveMessageContent(event.chunk.content))
              /\ TextOpen'
              /\ LET starts == Positions(out', {"TextMessageStart"})
                 IN  /\ starts # {}
                     /\ \A i \in starts :
                           (\A j \in starts : j <= i)
                               => /\ out'[i].messageId = CurrentStream'.id
                                  /\ \A k \in Positions(out', {"TextMessageEnd"}) :
                                        k < i ]_vars

\* Two deltas with the texts "a" and "b", the second without a chunk id, gave
\* two content events of the unit msg-1, in that order.
C23_Witness ==
    /\ pc = "next"
    /\ TextOpen
    /\ out = <<TextMessageStart("msg-1"),
               TextMessageContent("msg-1", "a"),
               TextMessageContent("msg-1", "b")>>
    /\ uuid = 1

\* C24: the table has an entry for the run exactly while a unit is open: the
\* entry is present iff the most recent of the events TextMessageStart,
\* ActionExecutionStart, TextMessageEnd and ActionExecutionEnd in the sink is
\* a start, and then the entry is a unit of the kind of that start, with the
\* id that start carries (messageId, or actionExecutionId as call id).
C24_TableMirrorsOpenUnit ==
    LET lifecycle == Positions(out, {"TextMessageStart", "ActionExecutionStart",
                                     "TextMessageEnd", "ActionExecutionEnd"})
        present == streamState.runId \in DOMAIN streamState.messagesInProgress
    IN  IF lifecycle = {}
        THEN ~present
        ELSE LET last == out[CHOOSE i \in lifecycle : \A j \in lifecycle : j <= i]
             IN  CASE last.type = "TextMessageStart" ->
                        /\ present
                        /\ TextOpen
                        /\ CurrentStream.id = last.messageId
                   [] last.type = "ActionExecutionStart" ->
                        /\ present
                        /\ ToolCallOpen
                        /\ CurrentStream.toolCallId = last.actionExecutionId
                   [] OTHER -> ~present

\* C25: a token delta whose chunk carries a finish_reason emits nothing and
\* leaves the stream state (the table included) as it was, whatever content or
\* tool-call descriptor it carries; and a unit that is open stays open until a
\* generation-end event is handled.
C25_FinishReasonNoEffect ==
    [][ /\ (pc = "body" /\ IsTokenDelta(event) /\ event.chunk.present
             /\ event.chunk.finish_reason \notin {Null, Undefined, ""})
           => /\ out' = out
              /\ streamState' = streamState
              /\ uuid' = uuid
              /\ pc' = "next"
        /\ (UnitOpen /\ ~UnitOpen') => (pc = "body" /\ IsGenerationEnd(event)) ]_vars

\* A delta with finish_reason "stop" and the text "a" is about to be handled
\* while a text unit is open.
C25_Witness ==
    /\ pc = "body"
    /\ IsTokenDelta(event)
    /\ event.chunk.finish_reason = "stop"
    /\ event.chunk.content = StrContent("a")
    /\ TextOpen

\* C26: only token deltas and generation-end events emit events or change the
\* table. An event of any other kind emits nothing, draws no UUID and leaves
\* the table, runId and hasError as they were; it leaves currentNodeName as
\* it was too, unless it is an on_chain_start whose langgraph_node is present
\* and is not START, which sets currentNodeName to that node.
C26_OnlyDeltaAndEndEmit ==
    [][ /\ (pc = "body" /\ ~IsTokenDelta(event) /\ ~IsGenerationEnd(event))
           => /\ out' = out
              /\ uuid' = uuid
              /\ pc' = "next"
              /\ streamState'
                    = [streamState EXCEPT !.currentNodeName =
                         IF /\ event.event = "on_chain_start"
                            /\ event.langgraph_node \notin {Null, Undefined, ""}
                            /\ event.langgraph_node # "__start__"
                         THEN event.langgraph_node
                         ELSE @]
        /\ (\/ streamState'.messagesInProgress # streamState.messagesInProgress
            \/ (out' # out /\ pc # "finally"))
           => (pc = "body" /\ (IsTokenDelta(event) \/ IsGenerationEnd(event))) ]_vars

\* Three events other than deltas and generation-ends were handled, one of
\* them the entry of the node "agent": nothing was emitted.
C26_Witness ==
    /\ pc = "next"
    /\ eventCount = 3
    /\ out = <<>>
    /\ streamState.currentNodeName = "agent"
    /\ ~UnitOpen

\* A token delta whose first tool-call descriptor has no name and no args.
BareDescriptorDelta(e) ==
    /\ IsTokenDelta(e)
    /\ e.chunk.present
    /\ Len(e.chunk.tool_calls) > 0
    /\ e.chunk.tool_calls[1].name \in {Null, Undefined, ""}
    /\ e.chunk.tool_calls[1].args.kind = "undefined"

\* The same event with no tool-call descriptor in its chunk.
WithoutToolCalls(e) == [e EXCEPT !.chunk.tool_calls = <<>>]

\* C27: a token delta whose descriptor has neither a name nor args emits no
\* ActionExecutionStart, ActionExecutionArgs or ActionExecutionEnd, in every
\* state, and opens no tool-call unit; the descriptor has no effect at all:
\* the sink, the stream state and the UUIDs drawn are left as the same delta
\* without the descriptor leaves them.
C27_BareDescriptorIgnored ==
    [][ (pc = "body" /\ BareDescriptorDelta(event))
        => /\ Count(Appended, {"ActionExecutionStart", "ActionExecutionArgs",
                               "ActionExecutionEnd"}) = 0
           /\ ToolCallOpen' => (ToolCallOpen /\ CurrentStream' = CurrentStream)
           /\ LET r == handleLangGraphEvent(WithoutToolCalls(event), out, streamState, uuid)
              IN  out' = r.out /\ streamState' = r.state /\ uuid' = r.uuid ]_vars

\* A delta with a bare descriptor is about to be handled while a tool-call
\* unit is open.
C27_Witness ==
    /\ pc = "body"
    /\ BareDescriptorDelta(event)
    /\ ToolCallOpen
    /\ Len(out) = 2

\* C28 (under DispatchSpec): the runId of the stream state is first-writer-
\* wins: a step changes it only by handling an event that carries a run
\* identifier while the runId is unset, and then to that identifier; once it
\* holds a value no event changes it.
C28_RunIdFirstWriterWins ==
    [][ streamState'.runId
          = IF /\ pc = "body"
               /\ streamState.runId \in {Null, Undefined, ""}
               /\ event.run_id \notin {Null, Undefined, ""}
            THEN event.run_id
            ELSE streamState.runId ]_vars

\* The runId was unset and the first event adopted run-2; an event of run-1
\* is about to be handled.
C28_Witness ==
    /\ pc = "body"
    /\ eventCount >= 1
    /\ streamState.runId = "run-2"
    /\ event.run_id = "run-1"

\* C29: hasError records that an error has occurred: in every state where a
\* RunError is in the sink, or the source stream has failed (the driver holds
\* an error to reject with), hasError is true. (That hasError, once true,
\* stays true is the rest of the claim; no state has it true.)
C29_HasErrorRecordsErrors ==
    (Count(out, {"RunError"}) > 0 \/ error # Null) => streamState.hasError

----------------------------------------------------------------------------
\* Claims about concurrent invocations (under ConcurrentSpec).

RECURSIVE Alone(_, _)
\* The sink and the stream state of an invocation that has handled the first
\* k events of history on its own, from a stream state of its own.
Alone(history, k) ==
    IF k = 0
    THEN Returned(createStreamState(0), <<>>, 0)
    ELSE LET before == Alone(history, k - 1)
         IN  handleLangGraphEvent(history[k], before.out, before.state, before.uuid)

\* C30: two invocations whose steps interleave have each a stream state of
\* their own, and each has on its sink what it would have running alone, and
\* in its table the unit it would have running alone: the events of one never
\* reach the table or the sink of the other.
C30_InvocationsIsolated ==
    /\ \A i, j \in Invocations :
          (i # j /\ invocations.run[i].pc # "idle" /\ invocations.run[j].pc # "idle")
              => invocations.run[i].streamState # invocations.run[j].streamState
    /\ \A i \in Invocations :
          LET run == invocations.run[i]
              alone == Alone(run.history, Len(run.history))
              state == invocations.heap[run.streamState]
          IN  run.pc # "idle" =>
                /\ run.out = IF run.pc = "resolved"
                             THEN Append(alone.out, Complete)
                             ELSE alone.out
                /\ getMessageInProgress(state.runId, state)
                     = getMessageInProgress(alone.state.runId, alone.state)

\* Both invocations are running: the first has a text unit open, and the
\* second has opened a tool-call unit after it.
C30_Witness ==
    /\ invocations.run[1].pc = "next"
    /\ invocations.run[2].pc = "next"
    /\ invocations.run[1].out
         = <<TextMessageStart("msg-1"), TextMessageContent("msg-1", "a")>>
    /\ invocations.run[2].out = <<ActionExecutionStart("call_1", "search", "msg-1")>>

----------------------------------------------------------------------------
\* The stream driver on a finite source that ends normally. The source holds
\* at most MaxEvents elements: deltas that open a tool-call unit, deltas whose
\* arguments JSON.stringify cannot serialise, deltas of text and
\* generation-end events. The event loop resumes every pending continuation
\* of the for await loop, which is the weak fairness of the driver's steps.

FiniteEvents ==
    ProcessEvents \cup GenerationEnds
        \cup { [PlainDelta EXCEPT !.chunk.content = StrContent(c)] : c \in {"a", "b"} }

FiniteSourceYields == SourceYieldsFrom(FiniteEvents)

FiniteNext ==
    \/ StreamEventsReturns
    \/ FiniteSourceYields
    \/ SourceEnds
    \/ LoopBody
    \/ Finally

FiniteSpec == Init /\ [][FiniteNext]_vars /\ WF_vars(FiniteNext)

----------------------------------------------------------------------------
\* Claims about the stream driver's termination

\* C31: on a finite source the driver takes an element only when the previous
\* one has been dispatched, dispatches each element taken exactly once and
\* goes back for the next one whether or not the handler failed, and
\* eventually settles with complete() as the last call on the sink, whether
\* or not a unit is still open.
C31_DispatchesAllAndCompletes ==
    /\ [][ /\ pc' = "body" => pc = "next" /\ event = NoEvent
           /\ pc = "body" =>
                /\ pc' = "next"
                /\ eventCount' = eventCount + 1
                /\ event' = NoEvent
                /\ \E r \in {handleLangGraphEvent(event, out, streamState, uuid)} :
                     out' = r.out /\ streamState' = r.state ]_vars
    /\ [](Settled => out # <<>> /\ out[Len(out)] = Complete /\ Count(out, {"complete"}) = 1)
    /\ <>Settled

\* Three elements were dispatched, a handler failed, a unit is still open and
\* the driver has settled with the sink completed.
C31_Witness ==
    /\ pc = "resolved"
    /\ eventCount = MaxEvents
    /\ Count(out, {"RunError"}) >= 1
    /\ UnitOpen
    /\ out[Len(out)] = Complete

----------------------------------------------------------------------------
\* Claims about the key of the Run State Table

\* C32: the Run State Table never holds an entry under a key other than
\* streamState.runId, so it holds at most one entry, and what a handler does
\* with an event does not depend on the event's run_id: a delta of any engine
\* run feeds the open unit and a generation-end event of any engine run
\* closes it.
C32_TableKeyedByStateRunId ==
    [][ /\ DOMAIN streamState'.messagesInProgress \subseteq {streamState'.runId}
        /\ Cardinality(DOMAIN streamState'.messagesInProgress) <= 1
        /\ pc = "body" =>
             \A run \in RunIds :
                LET r == handleLangGraphEvent([event EXCEPT !.run_id = run], out,
                                              streamState, uuid)
                IN  out' = r.out /\ streamState' = r.state ]_vars

\* A text unit fed by two deltas has been closed by a generation-end event of
\* run-2; no event's run_id is the key of the table.
C32_Witness ==
    /\ pc = "next"
    /\ eventCount = 3
    /\ streamState.runId \notin RunIds
    /\ ~UnitOpen
    /\ out = <<TextMessageStart("msg-1"), TextMessageContent("msg-1", "a"),
               TextMessageContent("msg-1", "b"), TextMessageEnd("msg-1")>>

----------------------------------------------------------------------------
\* Claims about the paths of a token delta

\* A token delta that reaches the tool-call conditions of lines 259-288: it
\* has a chunk, no finish_reason, a first tool-call descriptor, and tool-call
\* emission is enabled.
DescriptorDelta(e) ==
    /\ IsTokenDelta(e)
    /\ e.chunk.present
    /\ ~Truthy(e.chunk.finish_reason)
    /\ HasToolCall(e.chunk)
    /\ shouldEmitToolCalls(e)

\* C33: while a text unit is open, a token delta that carries a tool-call
\* descriptor, with tool-call emission enabled, emits no ActionExecutionStart
\* and no ActionExecutionArgs and leaves the stream state, the open text unit
\* included, as it was; it emits its text as one TextMessageContent of the
\* open unit when it has text (and no finish_reason, and messages are
\* emitted), and nothing otherwise.
C33_DescriptorUnderTextUnit ==
    [][ ( /\ pc = "body"
          /\ TextOpen
          /\ IsTokenDelta(event)
          /\ event.chunk.present
          /\ HasToolCall(event.chunk)
          /\ shouldEmitToolCalls(event) )
        => LET text == resolveMessageContent(event.chunk.content)
           IN  /\ Count(Appended, {"ActionExecutionStart", "ActionExecutionArgs"}) = 0
               /\ streamState' = streamState
               /\ TextOpen'
               /\ Appended = IF /\ ~Truthy(event.chunk.finish_reason)
                                /\ Truthy(text)
                                /\ shouldEmitMessages(event)
                             THEN <<TextMessageContent(CurrentStream.id, text)>>
                             ELSE <<>> ]_vars

\* The text unit msg-1 is open and a delta naming the call call_2, with args
\* and with the text "b", is about to be handled.
C33_Witness ==
    /\ pc = "body"
    /\ out = <<TextMessageStart("msg-1"), TextMessageContent("msg-1", "a")>>
    /\ TextOpen
    /\ DescriptorDelta(event)
    /\ event.chunk.tool_calls[1] = ToolCall("call_2", "analyze", ObjArgs(<< <<"data", "x">> >>))
    /\ resolveMessageContent(event.chunk.content) = "b"
    /\ shouldEmitMessages(event)

\* C34: while a tool-call unit is open no step emits an ActionExecutionStart,
\* and an ActionExecutionEnd carries the call id of the open unit; a token
\* delta whose descriptor names another call (another id and another name)
\* with args emits those args as one ActionExecutionArgs under the call id of
\* the open unit and leaves the stream state as it was.
C34_SecondCallFeedsOpenUnit ==
    [][ ToolCallOpen
        => /\ Count(Appended, {"ActionExecutionStart"}) = 0
           /\ \A i \in 1..Len(Appended) :
                 Appended[i].type = "ActionExecutionEnd"
                    => Appended[i].actionExecutionId = CurrentStream.toolCallId
           /\ ( /\ pc = "body"
                /\ DescriptorDelta(event)
                /\ Truthy(event.chunk.tool_calls[1].id)
                /\ Truthy(event.chunk.tool_calls[1].name)
                /\ event.chunk.tool_calls[1].id # CurrentStream.toolCallId
                /\ event.chunk.tool_calls[1].name # CurrentStream.toolCallName
                /\ event.chunk.tool_calls[1].args.kind = "object" )
              => /\ Appended = <<ActionExecutionArgs(CurrentStream.toolCallId,
                                     JSONstringify(event.chunk.tool_calls[1].args))>>
                 /\ streamState' = streamState ]_vars

\* The unit call_1 took the args of the descriptor of call_2 and was closed:
\* call_2 has no start and no end of its own.
C34_Witness ==
    /\ pc = "next"
    /\ ~UnitOpen
    /\ out = <<ActionExecutionStart("call_1", "search", "msg-1"),
               ActionExecutionArgs("call_1", "{\"data\":\"x\"}"),
               ActionExecutionEnd("call_1")>>

\* C35: a token delta that takes the tool-call start path (no unit open, the
\* descriptor has a name) emits the ActionExecutionStart and nothing else,
\* whatever args and text it carries; one that takes the args path (a
\* tool-call unit open, the descriptor has args) emits one event, the
\* ActionExecutionArgs, or the RunError of the serialisation failure, and no
\* text event, whatever text it carries.
C35_OneEventPerToolCallPath ==
    [][ (pc = "body" /\ DescriptorDelta(event))
        => LET toolCall == event.chunk.tool_calls[1]
           IN  /\ (~UnitOpen /\ Truthy(toolCall.name))
                  => /\ Len(Appended) = 1
                     /\ Appended[1].type = "ActionExecutionStart"
                     /\ Appended[1].actionName = toolCall.name
                     /\ ToolCallOpen'
               /\ (ToolCallOpen /\ ArgsTruthy(toolCall.args))
                  => /\ Len(Appended) = 1
                     /\ Appended[1].type
                           = IF StringifyThrows(toolCall.args)
                             THEN "RunError"
                             ELSE "ActionExecutionArgs"
                     /\ streamState' = streamState ]_vars

\* A delta with a named descriptor, args and the text "a" opened the unit
\* call_1 with one event, and a delta with args and text is about to be
\* handled on the args path.
C35_Witness ==
    /\ pc = "body"
    /\ out = <<ActionExecutionStart("call_1", "search", "msg-1")>>
    /\ ToolCallOpen
    /\ DescriptorDelta(event)
    /\ event.chunk.tool_calls[1].args.kind = "object"
    /\ resolveMessageContent(event.chunk.content) = "a"
    /\ shouldEmitMessages(event)

====
